---- MODULE Spec2Model ----
(***************************************************************************)
(* Model of aio_actors.models.Actor (src/src/aio_actors/models.py).        *)
(*                                                                         *)
(* The actor runs on one asyncio event loop.  The loop is modelled by its  *)
(* FIFO queue of ready callbacks (`ready`): a task step, a done callback   *)
(* (`set.discard`) or the `_on_completion` callback of an asyncio.wait.    *)
(* The event loop always runs the head of `ready`.  The environment        *)
(* (caller tasks and whatever the handlers await) acts between two         *)
(* callbacks: it calls start / send_message / shutdown and it resumes a    *)
(* suspended handler.                                                      *)
(***************************************************************************)
EXTENDS Integers, Sequences, FiniteSets, TLC

\* ---------------------------------------------------------------- bounds
MaxSends == 2        \* accepted send_message calls
MaxStarts == 2       \* successful start() calls (dispatch loops created)
MaxShutdowns == 2    \* callers of shutdown()
FairMaxShutdowns == 1   \* callers of shutdown() in the runs of FairSpec

\* ------------------------------------------------------------ vocabulary
None == "None"                 \* Python None: stop signal and empty payload
Payloads == {"msg", None}      \* values of T that callers send

NotStartedError == "Actor is not started"
AlreadyStartedError == "Actor is already started"

BgTasks == {<<"bg", i>> : i \in 1..MaxStarts}          \* __background_event_loop tasks
HandlerTasks == {<<"h", k>> : k \in 1..MaxSends}       \* handle_message tasks
SleepTasks == {<<"sl", s>> : s \in 1..MaxShutdowns}    \* create_task(asyncio.sleep(0))
Callers == {<<"sd", s>> : s \in 1..MaxShutdowns}       \* tasks that call shutdown()
AllTasks == BgTasks \cup HandlerTasks \cup SleepTasks \cup Callers

Step(t) == [k |-> "step", o |-> t]         \* run task t up to its next suspension
Discard(t) == [k |-> "discard", o |-> t]   \* __running_tasks.discard(t)
OnComp(w) == [k |-> "oncomp", o |-> w]     \* _on_completion of the wait owned by w

StopSignal == [id |-> 0, val |-> None]     \* the None that shutdown() enqueues
Message(n, p) == [id |-> n, val |-> p]     \* n-th accepted message, payload p

NoWait == [fs |-> {}, counter |-> 0]

NoError == [op |-> "none", out |-> "ok"]   \* the latest call did not raise
Raised(op, msg) == [op |-> op, out |-> msg]

VARIABLES
  started,        \* self._started
  queue,          \* self._queue: sequence of inbox entries
  getters,        \* self._queue._getters: dispatch loops suspended in get()
  running_tasks,  \* self.__running_tasks
  tasks,          \* every task: [st: position / scheduling state, cbs: done callbacks]
  wait,           \* per waiting task: the asyncio.wait it is suspended in
  ready,          \* the event loop's FIFO of ready callbacks
  sent,           \* history: entries accepted by send_message, in order
  dispatched,     \* history: entries for which handle_message was spawned, in order
  sentAtCall,     \* history: per shutdown() caller, Len(sent) when it called
  failed,         \* history: handler tasks that ended with an exception
  result          \* the exception the latest API call raised, or NoError

vars == <<started, queue, getters, running_tasks, tasks, wait, ready,
          sent, dispatched, sentAtCall, failed, result>>

\* everything but the outcome of the latest call
actorState == <<started, queue, getters, running_tasks, tasks, wait, ready,
                sent, dispatched, sentAtCall, failed>>

\* ----------------------------------------------------------------- Init
Init ==
  /\ started = FALSE
  /\ queue = <<>>
  /\ getters = <<>>
  /\ running_tasks = {}
  /\ tasks = [t \in AllTasks |->
                [st |-> IF t \in Callers THEN "idle" ELSE "none", cbs |-> <<>>]]
  /\ wait = [t \in BgTasks \cup Callers |-> NoWait]
  /\ ready = <<>>
  /\ sent = <<>>
  /\ dispatched = <<>>
  /\ sentAtCall = [sd \in Callers |-> 0]
  /\ failed = {}
  /\ result = NoError


\* -------------------------------------------------------------- helpers
NumLoops == Cardinality({t \in BgTasks : tasks[t].st # "none"})

\* mutant of VerifyStarted: the check of _started is missing
VerifyStartedAlways == TRUE

\* __verify_started passes
VerifyStarted == started

\* Queue.put on an unbounded queue never suspends: put_nowait appends the
\* item and wakes the first suspended getter.
QueueAfterPut(e) == Append(queue, e)
GettersAfterPut == IF getters = <<>> THEN getters ELSE Tail(getters)
TasksAfterPut ==
  IF getters = <<>> THEN tasks
  ELSE [tasks EXCEPT ![Head(getters)].st = "get_woken"]
ReadyAfterPut ==
  IF getters = <<>> THEN ready ELSE Append(ready, Step(Head(getters)))

\* asyncio.wait(fs): add_done_callback(_on_completion) on every member; a
\* member that is already done gets the callback scheduled at once.
WaitTasks(tk, w, fs) ==
  [t \in AllTasks |->
     IF t \in fs /\ tk[t].st # "done"
     THEN [tk[t] EXCEPT !.cbs = Append(@, OnComp(w))]
     ELSE tk[t]]

\* mutant of WaitReady: the wait is notified at once, whether or not a
\* member is done
WaitReadyAtOnce(tk, rd, w, fs) == Append(rd, OnComp(w))

\* asyncio.wait(fs): the _on_completion callbacks of the members already done
WaitReady(tk, rd, w, fs) ==
  rd \o [j \in 1..Cardinality({t \in fs : tk[t].st = "done"}) |-> OnComp(w)]

\* asyncio.wait returning: remove_done_callback on every member.  An
\* _on_completion that is already scheduled would find the waiter done and
\* do nothing, so it is taken out of the ready queue as well.
EndWaitTasks(tk, w) ==
  [t \in AllTasks |->
     [tk[t] EXCEPT !.cbs = SelectSeq(@, LAMBDA c : c # OnComp(w))]]
EndWaitReady(rd, w) ==
  SelectSeq(rd, LAMBDA c : c # OnComp(w))

\* the tasks shutdown() waits for: a copy of the tracked set plus the sleep task
ShutdownWaitSet(sl) == running_tasks \cup {sl}

\* ------------------------------------------------- environment: API calls
\* mutant of Start: no check of _started, every call spawns a dispatch loop
StartUnchecked ==
  /\ NumLoops < MaxStarts
  /\ LET bg == <<"bg", NumLoops + 1>> IN
       /\ started' = TRUE
       /\ tasks' = [tasks EXCEPT ![bg] = [st |-> "start",
                                          cbs |-> <<Discard(bg)>>]]
       /\ ready' = Append(ready, Step(bg))
  /\ result' = NoError
  /\ UNCHANGED <<queue, getters, running_tasks, wait, sent, dispatched,
                 sentAtCall, failed>>

\* mutant of Start: the dispatch loop's task is added to the tracked set
StartTracked ==
  IF started
  THEN /\ result' = Raised("start", AlreadyStartedError)
       /\ UNCHANGED <<started, queue, getters, running_tasks, tasks, wait,
                      ready, sent, dispatched, sentAtCall, failed>>
  ELSE /\ NumLoops < MaxStarts
       /\ LET bg == <<"bg", NumLoops + 1>> IN
            /\ started' = TRUE
            /\ tasks' = [tasks EXCEPT ![bg] = [st |-> "start",
                                               cbs |-> <<Discard(bg)>>]]
            /\ ready' = Append(ready, Step(bg))
            /\ running_tasks' = running_tasks \cup {bg}
       /\ result' = NoError
       /\ UNCHANGED <<queue, getters, wait, sent, dispatched, sentAtCall,
                      failed>>

\* start(), lines 19-28
Start ==
  IF started
  THEN /\ result' = Raised("start", AlreadyStartedError)
       /\ UNCHANGED <<started, queue, getters, running_tasks, tasks, wait,
                      ready, sent, dispatched, sentAtCall, failed>>
  ELSE /\ NumLoops < MaxStarts
       /\ LET bg == <<"bg", NumLoops + 1>> IN
            /\ started' = TRUE
            /\ tasks' = [tasks EXCEPT ![bg] = [st |-> "start",
                                               cbs |-> <<Discard(bg)>>]]
            /\ ready' = Append(ready, Step(bg))
       /\ result' = NoError
       /\ UNCHANGED <<queue, getters, running_tasks, wait, sent, dispatched,
                      sentAtCall, failed>>

\* mutant of Send: the message is enqueued without __verify_started
SendUnchecked(p) ==
  /\ Len(sent) < MaxSends
  /\ LET e == Message(Len(sent) + 1, p) IN
       /\ queue' = QueueAfterPut(e)
       /\ sent' = Append(sent, e)
  /\ getters' = GettersAfterPut
  /\ tasks' = TasksAfterPut
  /\ ready' = ReadyAfterPut
  /\ result' = NoError
  /\ UNCHANGED <<started, running_tasks, wait, dispatched, sentAtCall, failed>>

\* send_message(message), lines 30-35
Send(p) ==
  IF ~VerifyStarted
  THEN /\ result' = Raised("send", NotStartedError)
       /\ UNCHANGED <<started, queue, getters, running_tasks, tasks, wait,
                      ready, sent, dispatched, sentAtCall, failed>>
  ELSE /\ Len(sent) < MaxSends
       /\ LET e == Message(Len(sent) + 1, p) IN
            /\ queue' = QueueAfterPut(e)
            /\ sent' = Append(sent, e)
       /\ getters' = GettersAfterPut
       /\ tasks' = TasksAfterPut
       /\ ready' = ReadyAfterPut
       /\ result' = NoError
       /\ UNCHANGED <<started, running_tasks, wait, dispatched, sentAtCall, failed>>

\* mutant of ShutdownCall: the stop signal is enqueued without __verify_started
ShutdownCallUnchecked(sd) ==
  /\ sd \in Callers
  /\ tasks[sd].st = "idle"
  /\ \A j \in 1..(sd[2] - 1) : tasks[<<"sd", j>>].st # "idle"
  /\ queue' = QueueAfterPut(StopSignal)
  /\ getters' = GettersAfterPut
  /\ tasks' = [TasksAfterPut EXCEPT ![sd].st = "sleep"]
  /\ ready' = Append(ReadyAfterPut, Step(sd))
  /\ sentAtCall' = [sentAtCall EXCEPT ![sd] = Len(sent)]
  /\ result' = NoError
  /\ UNCHANGED <<started, running_tasks, wait, sent, dispatched, failed>>

\* shutdown() up to its first suspension, lines 60-63
ShutdownCall(sd) ==
  /\ sd \in Callers
  /\ tasks[sd].st = "idle"
  /\ \A j \in 1..(sd[2] - 1) : tasks[<<"sd", j>>].st # "idle"
  /\ IF ~VerifyStarted
     THEN /\ result' = Raised("shutdown", NotStartedError)
          /\ UNCHANGED <<started, queue, getters, running_tasks, tasks, wait,
                         ready, sent, dispatched, sentAtCall, failed>>
     ELSE /\ queue' = QueueAfterPut(StopSignal)
          /\ getters' = GettersAfterPut
          /\ tasks' = [TasksAfterPut EXCEPT ![sd].st = "sleep"]
          /\ ready' = Append(ReadyAfterPut, Step(sd))
          /\ sentAtCall' = [sentAtCall EXCEPT ![sd] = Len(sent)]
          /\ result' = NoError
          /\ UNCHANGED <<started, running_tasks, wait, sent, dispatched, failed>>

\* whatever a suspended handle_message awaits completes
HandlerResume(h) ==
  /\ h \in HandlerTasks
  /\ tasks[h].st = "pending"
  /\ tasks' = [tasks EXCEPT ![h].st = "woken"]
  /\ ready' = Append(ready, Step(h))
  /\ UNCHANGED <<started, queue, getters, running_tasks, wait, sent,
                 dispatched, result, sentAtCall, failed>>

\* ------------------------------------------- event loop: head of `ready`
\* one step of __background_event_loop, lines 37-52, from a resumption to
\* the next suspension (pacing wait, empty inbox) or to the break
BgStep(bg) ==
  /\ bg \in BgTasks
  /\ ready # <<>> /\ Head(ready) = Step(bg)
  /\ LET st == tasks[bg].st
         tk0 == IF st = "wait_woken" THEN EndWaitTasks(tasks, bg) ELSE tasks
         rd0 == IF st = "wait_woken" THEN EndWaitReady(Tail(ready), bg)
                                     ELSE Tail(ready)
     IN
     IF st = "start" /\ Cardinality(running_tasks) > 0
     THEN \* lines 39, 49-52: pacing wait on the tracked set
          /\ tasks' = [WaitTasks(tk0, bg, running_tasks) EXCEPT ![bg].st = "wait"]
          /\ ready' = WaitReady(tk0, rd0, bg, running_tasks)
          /\ wait' = [wait EXCEPT ![bg] = [fs |-> running_tasks,
                                           counter |-> Cardinality(running_tasks)]]
          /\ UNCHANGED <<queue, getters, running_tasks, dispatched>>
     ELSE IF queue = <<>>
     THEN \* line 40: get() suspends on an empty inbox
          /\ getters' = Append(getters, bg)
          /\ tasks' = [tk0 EXCEPT ![bg].st = "get"]
          /\ ready' = rd0
          /\ wait' = [wait EXCEPT ![bg] = NoWait]
          /\ UNCHANGED <<queue, running_tasks, dispatched>>
     ELSE LET task == Head(queue) IN
          IF task.val = None
          THEN \* lines 41-42: break, the task finishes
               /\ queue' = Tail(queue)
               /\ tasks' = [tk0 EXCEPT ![bg] = [st |-> "done", cbs |-> <<>>]]
               /\ ready' = rd0 \o tk0[bg].cbs
               /\ wait' = [wait EXCEPT ![bg] = NoWait]
               /\ UNCHANGED <<getters, running_tasks, dispatched>>
          ELSE \* lines 44-46, then lines 39, 49-52 of the next iteration
               LET h == <<"h", Len(dispatched) + 1>>
                   tk1 == [tk0 EXCEPT ![h] = [st |-> "start",
                                              cbs |-> <<Discard(h)>>]]
                   rd1 == Append(rd0, Step(h))
                   rt1 == running_tasks \cup {h}
               IN /\ queue' = Tail(queue)
                  /\ dispatched' = Append(dispatched, task)
                  /\ running_tasks' = rt1
                  /\ tasks' = [WaitTasks(tk1, bg, rt1) EXCEPT ![bg].st = "wait"]
                  /\ ready' = WaitReady(tk1, rd1, bg, rt1)
                  /\ wait' = [wait EXCEPT ![bg] = [fs |-> rt1,
                                                   counter |-> Cardinality(rt1)]]
                  /\ UNCHANGED getters
  /\ UNCHANGED <<started, sent, result, sentAtCall, failed>>

\* handle_message runs to its end: the task is done, its done callbacks are
\* scheduled.  (HandlerRaise is the same step with the exception recorded.)
HandlerFinish(h) ==
  /\ h \in HandlerTasks
  /\ ready # <<>> /\ Head(ready) = Step(h)
  /\ tasks' = [tasks EXCEPT ![h] = [st |-> "done", cbs |-> <<>>]]
  /\ ready' = Tail(ready) \o tasks[h].cbs
  /\ UNCHANGED <<started, queue, getters, running_tasks, wait, sent,
                 dispatched, result, sentAtCall, failed>>

\* mutant of HandlerRaise: the exception ends the task without its done
\* callbacks being scheduled
HandlerRaiseSilent(h) ==
  /\ h \in HandlerTasks
  /\ ready # <<>> /\ Head(ready) = Step(h)
  /\ tasks' = [tasks EXCEPT ![h] = [st |-> "done", cbs |-> <<>>]]
  /\ ready' = Tail(ready)
  /\ failed' = failed \cup {h}
  /\ UNCHANGED <<started, queue, getters, running_tasks, wait, sent,
                 dispatched, result, sentAtCall>>

\* handle_message raises: Task.__step stores the exception with
\* set_exception, which marks the task done and schedules its done
\* callbacks exactly as set_result does; nothing retrieves the exception.
\* The step is part of FairNext, where `failed` records which invocations
\* raised; in Next it is covered by HandlerFinish.
HandlerRaise(h) ==
  /\ h \in HandlerTasks
  /\ ready # <<>> /\ Head(ready) = Step(h)
  /\ tasks' = [tasks EXCEPT ![h] = [st |-> "done", cbs |-> <<>>]]
  /\ ready' = Tail(ready) \o tasks[h].cbs
  /\ failed' = failed \cup {h}
  /\ UNCHANGED <<started, queue, getters, running_tasks, wait, sent,
                 dispatched, result, sentAtCall>>

\* handle_message starts and suspends on something it awaits
HandlerSuspend(h) ==
  /\ h \in HandlerTasks
  /\ ready # <<>> /\ Head(ready) = Step(h)
  /\ tasks[h].st = "start"
  /\ tasks' = [tasks EXCEPT ![h].st = "pending"]
  /\ ready' = Tail(ready)
  /\ UNCHANGED <<started, queue, getters, running_tasks, wait, sent,
                 dispatched, result, sentAtCall, failed>>

\* the task of asyncio.sleep(0), line 66: one bare yield, then done
SleepStep(sl) ==
  /\ sl \in SleepTasks
  /\ ready # <<>> /\ Head(ready) = Step(sl)
  /\ IF tasks[sl].st = "start"
     THEN /\ tasks' = [tasks EXCEPT ![sl].st = "yield"]
          /\ ready' = Append(Tail(ready), Step(sl))
     ELSE /\ tasks' = [tasks EXCEPT ![sl] = [st |-> "done", cbs |-> <<>>]]
          /\ ready' = Tail(ready) \o tasks[sl].cbs
  /\ UNCHANGED <<started, queue, getters, running_tasks, wait, sent,
                 dispatched, result, sentAtCall, failed>>

\* shutdown() resumed: after sleep(0), lines 63-68; after the wait, line 69
ShutdownStep(sd) ==
  /\ sd \in Callers
  /\ ready # <<>> /\ Head(ready) = Step(sd)
  /\ IF tasks[sd].st = "sleep"
     THEN LET sl == <<"sl", sd[2]>>
              tk1 == [tasks EXCEPT ![sl] = [st |-> "start", cbs |-> <<>>]]
              rd1 == Append(Tail(ready), Step(sl))
              fs == ShutdownWaitSet(sl)
          IN /\ tasks' = [WaitTasks(tk1, sd, fs) EXCEPT ![sd].st = "wait"]
             /\ ready' = WaitReady(tk1, rd1, sd, fs)
             /\ wait' = [wait EXCEPT ![sd] = [fs |-> fs,
                                              counter |-> Cardinality(fs)]]
             /\ UNCHANGED started
     ELSE /\ tasks' = [EndWaitTasks(tasks, sd) EXCEPT ![sd].st = "returned"]
          /\ ready' = EndWaitReady(Tail(ready), sd)
          /\ wait' = [wait EXCEPT ![sd] = NoWait]
          /\ started' = FALSE
  /\ UNCHANGED <<queue, getters, running_tasks, sent, dispatched, sentAtCall,
                 result, failed>>

\* mutant of DiscardCallback: the callback runs but removes nothing
DiscardNothing ==
  /\ ready # <<>> /\ Head(ready).k = "discard"
  /\ ready' = Tail(ready)
  /\ UNCHANGED <<started, queue, getters, running_tasks, tasks, wait, sent,
                 dispatched, result, sentAtCall, failed>>

\* done callback registered at lines 28 and 45
DiscardCallback ==
  /\ ready # <<>> /\ Head(ready).k = "discard"
  /\ running_tasks' = running_tasks \ {Head(ready).o}
  /\ ready' = Tail(ready)
  /\ UNCHANGED <<started, queue, getters, tasks, wait, sent, dispatched,
                 result, sentAtCall, failed>>

\* return_when of the wait a task is suspended in, lines 51 and 67
ReturnWhen(w) == IF w \in BgTasks THEN "FIRST_COMPLETED" ELSE "ALL_COMPLETED"

\* mutant of OnCompletion: the callback counts down but never resolves the
\* waiter
OnCompletionNoWake ==
  /\ ready # <<>> /\ Head(ready).k = "oncomp"
  /\ wait' = [wait EXCEPT ![Head(ready).o].counter = @ - 1]
  /\ ready' = Tail(ready)
  /\ UNCHANGED <<started, queue, getters, running_tasks, tasks, sent,
                 dispatched, result, sentAtCall, failed>>

\* _on_completion of asyncio.wait: count down and resolve the waiter
OnCompletion ==
  /\ ready # <<>> /\ Head(ready).k = "oncomp"
  /\ LET w == Head(ready).o
         c == wait[w].counter - 1
     IN /\ wait' = [wait EXCEPT ![w].counter = c]
        /\ IF (c <= 0 \/ ReturnWhen(w) = "FIRST_COMPLETED") /\ tasks[w].st = "wait"
           THEN /\ tasks' = [tasks EXCEPT ![w].st = "wait_woken"]
                /\ ready' = Append(Tail(ready), Step(w))
           ELSE /\ tasks' = tasks
                /\ ready' = Tail(ready)
  /\ UNCHANGED <<started, queue, getters, running_tasks, sent, dispatched,
                 result, sentAtCall, failed>>

Next ==
  \/ Start
  \/ \E p \in Payloads : Send(p)
  \/ \E sd \in Callers : ShutdownCall(sd)
  \/ \E h \in HandlerTasks : HandlerResume(h)
  \/ \E bg \in BgTasks : BgStep(bg)
  \/ \E h \in HandlerTasks : HandlerFinish(h)
  \/ \E h \in HandlerTasks : HandlerSuspend(h)
  \/ \E sl \in SleepTasks : SleepStep(sl)
  \/ \E sd \in Callers : ShutdownStep(sd)
  \/ DiscardCallback
  \/ OnCompletion

Spec == Init /\ [][Next]_vars

\* The event loop runs the head of `ready` whenever there is one (run_forever
\* never idles with a ready callback), and whatever a handler awaits
\* eventually completes.  The callers are under no obligation to call.
RunReady ==
  \/ \E bg \in BgTasks : BgStep(bg)
  \/ \E h \in HandlerTasks : HandlerFinish(h) \/ HandlerRaise(h) \/ HandlerSuspend(h)
  \/ \E sl \in SleepTasks : SleepStep(sl)
  \/ \E sd \in Callers : ShutdownStep(sd)
  \/ DiscardCallback
  \/ OnCompletion

Fairness ==
  /\ WF_vars(RunReady)
  /\ \A h \in HandlerTasks : WF_vars(HandlerResume(h))

\* FairSpec is the specification of the liveness properties and of the
\* handling of failed invocations: the steps of Next for the callers of
\* shutdown() numbered up to FairMaxShutdowns, with the end of a handler
\* split into a return and a raise, under the fairness above.
FairCallers == {<<"sd", s>> : s \in 1..FairMaxShutdowns}

FairNext ==
  \/ Start
  \/ \E p \in Payloads : Send(p)
  \/ \E sd \in FairCallers : ShutdownCall(sd)
  \/ \E h \in HandlerTasks : HandlerResume(h)
  \/ RunReady

FairSpec == Init /\ [][FairNext]_vars /\ Fairness

\* ------------------------------------------------------- type invariant
TypeOK ==
  /\ started \in BOOLEAN
  /\ running_tasks \subseteq AllTasks
  /\ \A j \in 1..Len(ready) : ready[j].o \in AllTasks
  /\ \A j \in 1..Len(getters) : getters[j] \in BgTasks


\* ------------------------------------------------------ lifecycle (spec)
\* The specification's four lifecycle states, read off the code's state:
\* the flag _started, whether a dispatch loop was ever created, and whether
\* a shutdown() call is between its call and its return.
EverStarted == NumLoops > 0
ShutdownInProgress ==
  \E sd \in Callers : tasks[sd].st \in {"sleep", "wait", "wait_woken"}
Created == ~EverStarted
Running == started /\ ~ShutdownInProgress
Draining == started /\ ShutdownInProgress
Stopped == EverStarted /\ ~started

IsPrefix(a, b) ==
  /\ Len(a) <= Len(b)
  /\ \A j \in 1..Len(a) : a[j] = b[j]

\* handler invocations that were dispatched and have not run to their end
Unfinished == {h \in HandlerTasks : tasks[h].st \in {"start", "pending", "woken"}}
\* dispatch loops that exist and have not left their loop
LiveLoops == {bg \in BgTasks : tasks[bg].st \notin {"none", "done"}}

\* ----------------------------------------------------------------- C1
\* C1: in every reachable state the sequence of messages for which
\* handle_message has been started is a prefix of the sequence of messages
\* accepted by send_message (each message dispatched once, in order, none
\* skipped).
C1_DispatchedPrefixOfSent == IsPrefix(dispatched, sent)


\* at this step the shutdown() call of caller sd returns
Returns(sd) == tasks[sd].st # "returned" /\ tasks'[sd].st = "returned"

\* the handler task spawned for inbox entry e, if any
HandlerOf(e) == {<<"h", k>> : k \in {j \in 1..Len(dispatched) : dispatched[j] = e}}

\* ----------------------------------------------------------------- C2
\* C2: when shutdown() returns, no handler invocation dispatched at any
\* earlier moment (before the call or during the drain) is still unfinished.
C2_NoUnfinishedAtReturn ==
  [][\A sd \in Callers : Returns(sd) => Unfinished' = {}]_vars

\* ----------------------------------------------------------------- C3
\* C3: when shutdown() returns, every message m1..mn accepted before that
\* shutdown() was called has been dispatched to the handler and its
\* invocation has run to its end; none is still in the inbox.  Stated for
\* runs in which every message carries a payload (an empty payload is the
\* case of C15).
C3_SentBeforeShutdownHandled ==
  [][\A sd \in Callers :
       (Returns(sd) /\ \A j \in 1..Len(sent) : sent[j].val # None) =>
         \A j \in 1..sentAtCall[sd] :
            /\ HandlerOf(sent[j]) # {}
            /\ \A h \in HandlerOf(sent[j]) : tasks'[h].st = "done"]_vars

\* ----------------------------------------------------------------- C4
\* C4: shutdown() returns only when the tracked collection is empty and
\* every dispatch process has consumed a stop signal and left its loop.
C4_LoopExitedAtReturn ==
  [][\A sd \in Callers : Returns(sd) =>
       running_tasks' = {} /\ LiveLoops' = {}]_vars

\* ----------------------------------------------------------------- C5
\* C5: once shutdown() has been called (Draining) and after it has returned
\* (Stopped), every send_message raises and leaves the inbox unchanged.
C5_SendAfterShutdownFails ==
  [][\A p \in Payloads : (Send(p) /\ (Draining \/ Stopped)) =>
       (result' # NoError /\ queue' = queue)]_vars


\* ----------------------------------------------------------------- C6
\* C6: on an actor in state Created, send_message raises "not started" and
\* leaves the inbox, the tracked collection and the lifecycle state
\* unchanged.
C6_SendBeforeStartFails ==
  [][\A p \in Payloads : (Send(p) /\ Created) =>
       (result' = Raised("send", NotStartedError)
        /\ UNCHANGED actorState)]_vars

\* a send_message that raised on an actor that was never started
C6_Witness ==
  Created /\ result = Raised("send", NotStartedError)

\* ----------------------------------------------------------------- C7
\* C7: start() on a Running actor raises "already started" and leaves the
\* lifecycle state, the inbox and the tracked collection unchanged; no
\* second dispatch process is spawned.
C7_SecondStartFails ==
  [][(Start /\ Running) =>
       (/\ result' = Raised("start", AlreadyStartedError)
        /\ UNCHANGED actorState
        /\ LiveLoops' = LiveLoops)]_vars

\* a start() that raised on a Running actor whose dispatch loop is alive
C7_Witness ==
  /\ Running
  /\ result = Raised("start", AlreadyStartedError)
  /\ Cardinality(LiveLoops) = 1

\* ----------------------------------------------------------------- C8
\* C8: shutdown() on an actor in state Created raises "not started",
\* enqueues no stop signal, changes no state and creates no dispatch
\* process.
C8_ShutdownBeforeStartFails ==
  [][\A sd \in Callers : (ShutdownCall(sd) /\ Created) =>
       (/\ result' = Raised("shutdown", NotStartedError)
        /\ UNCHANGED actorState
        /\ queue' = <<>>
        /\ NumLoops' = 0)]_vars

\* a shutdown() that raised on an actor that was never started
C8_Witness ==
  Created /\ result = Raised("shutdown", NotStartedError)

\* ----------------------------------------------------------------- C9
\* C9: the lifecycle state only moves forward along
\* Created -> Running -> Draining -> Stopped; once Stopped the actor is
\* never started again.
LifecycleRank ==
  IF Created THEN 0 ELSE IF Running THEN 1 ELSE IF Draining THEN 2 ELSE 3

C9_LifecycleMonotonic == [][LifecycleRank' >= LifecycleRank]_vars

\* ---------------------------------------------------------------- C10
\* C10 (as claimed): shutdown() raises "not started" only in state Created;
\* called in Running, in Draining or after a shutdown has completed it does
\* not raise.
C10_OnlyCreatedRaises ==
  [][\A sd \in Callers : (ShutdownCall(sd) /\ ~Created) =>
       result'.out # NotStartedError]_vars

\* C10 (amended): shutdown() raises "not started" exactly when _started is
\* false at the call, that is in state Created and in state Stopped; called
\* in Running or while an earlier shutdown is still Draining it proceeds.
C10_RaisesIffNotStarted ==
  [][\A sd \in Callers : ShutdownCall(sd) =>
       /\ (Created \/ Stopped) => (result' = Raised("shutdown", NotStartedError)
                                   /\ UNCHANGED actorState)
       /\ (Running \/ Draining) => (result' = NoError
                                    /\ tasks'[sd].st = "sleep"
                                    /\ queue' = Append(queue, StopSignal))]_vars

\* a shutdown() that raised after an earlier shutdown() had returned
C10_Witness ==
  /\ tasks[<<"sd", 1>>].st = "returned"
  /\ Stopped
  /\ result = Raised("shutdown", NotStartedError)

\* message k was accepted by send_message before any shutdown() was called,
\* that is while the actor was Running for the first time
AcceptedWhileRunning(k) ==
  /\ k <= Len(sent)
  /\ (tasks[<<"sd", 1>>].st = "idle" \/ k <= sentAtCall[<<"sd", 1>>])

\* message k was dispatched and its handler invocation has run to its end
Handled(k) ==
  /\ k <= Len(sent)
  /\ HandlerOf(sent[k]) # {}
  /\ \A h \in HandlerOf(sent[k]) : tasks[h].st = "done"

\* ---------------------------------------------------------------- C11
\* C11: with a fair event loop and handlers that eventually finish, every
\* message accepted by send_message while the actor is Running is
\* eventually dispatched and its handler invocation eventually completes.
C11_AcceptedEventuallyHandled ==
  \A k \in 1..MaxSends : AcceptedWhileRunning(k) ~> Handled(k)

\* ---------------------------------------------------------------- C12
\* C12: in every reachable state at most one dispatch process is alive,
\* over every sequence of start / send_message / shutdown calls, including
\* a start() after a shutdown() has returned.
C12_AtMostOneLoop == Cardinality(LiveLoops) <= 1

\* at this step dispatch loop bg leaves its loop (the break of line 42)
Exits(bg) == tasks[bg].st # "done" /\ tasks'[bg].st = "done"

\* the entries that are in inbox q
InInbox(q) == {q[i] : i \in 1..Len(q)}

\* ---------------------------------------------------------------- C13
\* C13: a dispatch loop never exits while a message enqueued ahead of the
\* stop signal has not been dequeued and dispatched: when a loop exits,
\* every accepted message that is not behind the consumed entry in the
\* inbox (the messages enqueued before it, and the entry itself if it is a
\* message) has been dispatched to the handler.
C13_StopAfterEarlierMessages ==
  [][\A bg \in BgTasks : (BgStep(bg) /\ Exits(bg)) =>
       \A j \in 1..Len(sent) :
          sent[j] \notin InInbox(queue') => HandlerOf(sent[j]) # {}]_vars

\* a dispatch loop has dequeued a stop signal of shutdown(): more shutdown()
\* calls have enqueued one than there are stop signals left in the inbox
StopConsumed ==
  Cardinality({sd \in Callers : tasks[sd].st # "idle"})
    > Cardinality({i \in 1..Len(queue) : queue[i] = StopSignal})

\* ---------------------------------------------------------------- C14
\* C14: once a dispatch loop has dequeued the stop signal, the number of
\* handler invocations ever started never increases again, whatever calls
\* follow.
C14_NoDispatchAfterStop ==
  [][StopConsumed => Len(dispatched') = Len(dispatched)]_vars

\* ---------------------------------------------------------------- C15
\* C15: a dispatch loop leaves its loop only by dequeuing the stop signal
\* that shutdown() enqueued; no user message, whatever its payload (None
\* included), makes it exit.
C15_ExitsOnlyOnStopSignal ==
  [][\A bg \in BgTasks : (BgStep(bg) /\ Exits(bg)) =>
       Head(queue) = StopSignal]_vars

\* the completion of task t has been observed: t is done and the done
\* callback that discards it (lines 28, 45) has run
CompletionObserved(t) ==
  /\ tasks[t].st = "done"
  /\ \A i \in 1..Len(ready) : ready[i] # Discard(t)

\* handler invocations that have been dispatched
Dispatched == {h \in HandlerTasks : tasks[h].st # "none"}

\* ---------------------------------------------------------------- C16
\* C16: in every reachable state the tracked collection holds exactly the
\* handler invocations that have been dispatched and whose completion
\* callback has not yet run: a handle is a member from the step that
\* dispatches it until its completion is observed, never shorter, and
\* nothing else (not the dispatch loop's own task) is ever a member.
C16_TrackedExactlyInFlight ==
  running_tasks = {h \in Dispatched : ~CompletionObserved(h)}

\* a handler invocation has run to its end and is still tracked because its
\* completion callback has not run yet, while a dispatch loop is alive
C16_Witness ==
  /\ LiveLoops # {}
  /\ \E h \in running_tasks : tasks[h].st = "done"

\* at this step dispatch loop bg gets past __wait_for_running_tasks (line
\* 39) and goes on to self._queue.get() (line 40)
PassesPacing(bg) ==
  /\ BgStep(bg)
  /\ tasks[bg].st \in {"start", "wait_woken"}
  /\ (tasks'[bg].st # "wait" \/ queue' # queue)

\* at this step dispatch loop bg takes an entry out of the inbox
Dequeues(bg) == BgStep(bg) /\ queue' # queue

\* ---------------------------------------------------------------- C17
\* C17: a dispatch loop gets past its pacing step only if the tracked
\* collection was empty when it reached the step, or at least one member of
\* the collection it waited on has completed; and it reaches the dequeue
\* only through the pacing step.  So it never dequeues while every
\* invocation tracked at the pacing step is still running.
C17_PacingBeforeDequeue ==
  [][\A bg \in BgTasks :
       /\ PassesPacing(bg) =>
            IF tasks[bg].st = "start"
            THEN running_tasks = {}
            ELSE \E h \in wait[bg].fs : tasks[h].st = "done"
       /\ Dequeues(bg) => (PassesPacing(bg) \/ tasks[bg].st = "get_woken")
       /\ tasks'[bg].st = "get" =>
            (PassesPacing(bg) \/ tasks[bg].st \in {"get", "get_woken"})]_vars

\* a dispatch loop is held in its pacing wait, with a message waiting in the
\* inbox, by a handler invocation that is still running; the invocation
\* before it was dispatched and has completed
C17_Witness ==
  /\ Len(dispatched) = 2
  /\ queue # <<>>
  /\ \E bg \in BgTasks :
       /\ tasks[bg].st = "wait"
       /\ wait[bg].fs # {}
       /\ \A h \in wait[bg].fs : tasks[h].st = "pending"

\* two or more handler invocations are tracked at the same time
Overlap == Cardinality(running_tasks) >= 2

\* the actor was started once: one dispatch loop was ever created
StartedOnce == NumLoops = 1

\* at this step dispatch loop bg spawns a handler invocation
Dispatches(bg) == BgStep(bg) /\ dispatched' # dispatched

Scheduled(c) == \E i \in 1..Len(ready) : ready[i] = c

\* what the runtime owes a handler invocation that raised, as it owes one
\* that returned: its handle stays tracked exactly until its discard
\* callback has run, a pacing wait that contains it is notified, and a
\* shutdown() whose awaited tasks are all done is notified
FailureHandled ==
  /\ \A h \in failed : h \in running_tasks <=> ~CompletionObserved(h)
  /\ \A bg \in BgTasks :
       (tasks[bg].st = "wait" /\ wait[bg].fs \cap failed # {}) =>
         Scheduled(OnComp(bg))
  /\ \A sd \in Callers :
       (/\ tasks[sd].st = "wait"
        /\ wait[sd].fs \cap failed # {}
        /\ \A f \in wait[sd].fs : tasks[f].st = "done") =>
         Scheduled(OnComp(sd))

\* ---------------------------------------------------------------- C19
\* C19: a handler invocation that raises is treated like one that returns.
\* The raising step changes neither the lifecycle state, nor the dispatch
\* loops, nor the inbox, and raises nothing to a caller; the handle is
\* removed when its discard callback runs; the loop's pacing wait and a
\* shutdown() that waits on the failed invocation are woken; and the
\* return of shutdown() raises nothing.
C19_FailureLikeSuccess ==
  [][/\ \A h \in HandlerTasks : HandlerRaise(h) =>
          /\ started' = started
          /\ LifecycleRank' = LifecycleRank
          /\ LiveLoops' = LiveLoops
          /\ queue' = queue
          /\ result' = result
          /\ Scheduled(Discard(h))'
     /\ \A sd \in Callers : Returns(sd) => result' = result
     /\ FailureHandled']_vars

\* the first invocation raised, the loop went on to dispatch the second
\* message, and a shutdown() has been woken from a wait on an invocation
\* that raised
C19_Witness ==
  /\ <<"h", 1>> \in failed
  /\ Len(dispatched) = 2
  /\ \E sd \in Callers :
       tasks[sd].st = "wait_woken" /\ wait[sd].fs \cap failed # {}

\* the shutdown() call of caller sd is between its call and its return
InShutdown(sd) == tasks[sd].st \in {"sleep", "wait", "wait_woken"}

\* ---------------------------------------------------------------- C20
\* C20: with a fair event loop and handlers that eventually finish, every
\* shutdown() call that was accepted eventually returns, whatever the
\* inbox holds and however many invocations are in flight, and its return
\* marks the actor stopped (_started is false).
C20_ShutdownTerminates ==
  /\ \A sd \in Callers : InShutdown(sd) ~> (tasks[sd].st = "returned")
  /\ [][\A sd \in Callers : Returns(sd) => ~started']_vars

\* a shutdown() called after two messages were accepted has returned, both
\* messages were dispatched and the dispatch loop has left its loop
C20_Witness ==
  /\ tasks[<<"sd", 1>>].st = "returned"
  /\ sentAtCall[<<"sd", 1>>] = 2
  /\ Len(dispatched) = 2
  /\ LiveLoops = {}

====
